---- MODULE Spec2Model ----
(***************************************************************************)
(* net-reduce: reduction of a list of IP prefixes to the entries that are  *)
(* not covered by a broader entry (src/reduce.rs, src/reduce_trie.rs), and *)
(* the command line pipeline around it (src/main.rs).                      *)
(*                                                                         *)
(* Addresses are scaled down: an IPv4 address has V4Bits bits and an IPv6  *)
(* address V6Bits bits (32 and 128 in the program).  Everything else is    *)
(* computed the way the code computes it.                                  *)
(***************************************************************************)
EXTENDS Integers, Sequences, FiniteSets, TLC

(* ------------------------------ bounds ---------------------------------- *)

V4Bits == 2

V6Bits == 1

MaxLines == 2

MaxInserts == 3

(* --------------------------- option values ------------------------------ *)

\* Option<T>: None is the empty sequence, Some(x) the one-element sequence.
None == <<>>

Some(x) == <<x>>

IsSome(o) == o # <<>>

(* ------------------------------ IpNet ----------------------------------- *)

V4 == "v4"

V6 == "v6"

Families == {V4, V6}

RECURSIVE Pow2(_)
Pow2(n) == IF n = 0 THEN 1 ELSE 2 * Pow2(n - 1)

\* IpNet::max_prefix_len: 32 for V4, 128 for V6 (scaled).
max_prefix_len_of(fam) == IF fam = V4 THEN V4Bits ELSE V6Bits

max_prefix_len(p) == max_prefix_len_of(p.fam)

\* An IpNet keeps the address exactly as it was given: bits beyond the prefix
\* length are neither cleared by the parser nor by the trie.
IpNet(fam, addr, len) == [fam |-> fam, addr |-> addr, len |-> len]

prefix_len(p) == p.len

Addrs(fam) == 0 .. (Pow2(max_prefix_len_of(fam)) - 1)

\* The bits of the address beyond the prefix length.
host_bits(p) == p.addr % Pow2(max_prefix_len(p) - p.len)

\* The prefixes the inputs are drawn from: every network of every length, with
\* the bits beyond the prefix length all clear (10.0.0.0/8) or all set
\* (10.255.255.255/8).
IpNets(fam) ==
  {p \in {IpNet(fam, a, l) : a \in Addrs(fam), l \in 0 .. max_prefix_len_of(fam)} :
     host_bits(p) \in {0, Pow2(max_prefix_len(p) - p.len) - 1}}

AllIpNets == IpNets(V4) \cup IpNets(V6)

\* IpNet::network: the address with the bits beyond the prefix length cleared.
network(p) ==
  LET h == Pow2(max_prefix_len(p) - p.len) IN (p.addr \div h) * h

\* IpNet::contains(&IpAddr): the address lies in the block of p.
contains(p, fam, addr) ==
  /\ p.fam = fam
  /\ LET h == Pow2(max_prefix_len(p) - p.len) IN (addr \div h) = (p.addr \div h)

\* get_bit: bit number pos of the address, counted from the most significant bit.
get_bit(p, pos) == (p.addr \div Pow2(max_prefix_len(p) - 1 - pos)) % 2

(* ------------------------------- trie ----------------------------------- *)

\* A Node tree is a function from the paths of its nodes (sequences of bits,
\* the root is <<>>) to the node's `prefix` field.  children[b] of the node at
\* path q is Some exactly when Append(q, b) is in the domain.
NodeDefault == (<<>> :> None)

HasChild(t, q, b) == Append(q, b) \in DOMAIN t

IsStrictDescendant(q, anc) ==
  /\ Len(q) > Len(anc)
  /\ SubSeq(q, 1, Len(anc)) = anc

\* The path the first n bits of p select.
BitPath(p, n) == [i \in 1 .. n |-> get_bit(p, i - 1)]

RECURSIVE find_leaf_from(_, _, _, _)
find_leaf_from(t, p, q, pos) ==
  IF pos >= prefix_len(p) THEN Some([node |-> q, pos |-> prefix_len(p)])
  ELSE IF IsSome(t[q]) THEN None
  ELSE IF ~HasChild(t, q, get_bit(p, pos)) THEN Some([node |-> q, pos |-> pos])
  ELSE find_leaf_from(t, p, Append(q, get_bit(p, pos)), pos + 1)

\* find_insert_leaf without the test of node.prefix: the walk never reports a
\* covering ancestor.
RECURSIVE find_leaf_unchecked(_, _, _, _)
find_leaf_unchecked(t, p, q, pos) ==
  IF pos >= prefix_len(p) THEN Some([node |-> q, pos |-> prefix_len(p)])
  ELSE IF ~HasChild(t, q, get_bit(p, pos)) THEN Some([node |-> q, pos |-> pos])
  ELSE find_leaf_unchecked(t, p, Append(q, get_bit(p, pos)), pos + 1)

find_insert_leaf_NoCoverCheck(t, p) == find_leaf_unchecked(t, p, <<>>, 0)

\* find_insert_leaf: None when a node above the prefix's own node is terminal,
\* else the deepest existing node on the prefix's path and its depth.
find_insert_leaf(t, p) == find_leaf_from(t, p, <<>>, 0)

\* A walk that creates the nodes it does not find on the prefix's path.
walked_CreatesPath(t, p) ==
  [q \in DOMAIN t \cup {BitPath(p, k) : k \in 0 .. prefix_len(p)} |->
     IF q \in DOMAIN t THEN t[q] ELSE None]

\* The tree find_insert_leaf leaves behind its `root: &mut Node`: the walk
\* assigns to no child slot and to no prefix field.
walked(t, p) == t

\* insert_into_node that marks the node terminal without clearing its child
\* slots.
insert_into_node_NoPrune(t, p) ==
  LET leaf == find_insert_leaf(t, p) IN
  IF ~IsSome(leaf) THEN [root |-> t, ok |-> FALSE]
  ELSE
    LET target == BitPath(p, prefix_len(p))
        created == {BitPath(p, k) : k \in (leaf[1].pos + 1) .. prefix_len(p)}
    IN [root |-> [q \in DOMAIN t \cup created |->
                    IF q = target THEN Some(p) ELSE IF q \in DOMAIN t THEN t[q] ELSE None],
        ok |-> TRUE]

\* insert_into_node: the tree afterwards and the returned bool.
insert_into_node(t, p) ==
  LET leaf == find_insert_leaf(t, p) IN
  IF ~IsSome(leaf) THEN [root |-> t, ok |-> FALSE]
  ELSE
    LET start_pos == leaf[1].pos
        target == BitPath(p, prefix_len(p))
        created == {BitPath(p, k) : k \in (start_pos + 1) .. prefix_len(p)}
        grown == [q \in DOMAIN t \cup created |-> IF q \in DOMAIN t THEN t[q] ELSE None]
        kept == {q \in DOMAIN grown : ~IsStrictDescendant(q, target)}
    IN [root |-> [q \in kept |-> IF q = target THEN Some(p) ELSE grown[q]],
        ok |-> TRUE]

RECURSIVE collect_from(_, _)
collect_from(t, q) ==
  IF IsSome(t[q]) THEN <<t[q][1]>>
  ELSE (IF HasChild(t, q, 0) THEN collect_from(t, Append(q, 0)) ELSE <<>>)
       \o (IF HasChild(t, q, 1) THEN collect_from(t, Append(q, 1)) ELSE <<>>)

\* collect_prefixes(&root, &mut result): what the traversal appends to result.
collect_prefixes(t) == collect_from(t, <<>>)

(* --------------------------- sort and build ----------------------------- *)

SelectLen(s, k) == SelectSeq(s, LAMBDA p : prefix_len(p) = k)

RECURSIVE concat_buckets(_, _, _)
concat_buckets(s, k, maxk) ==
  IF k > maxk THEN <<>> ELSE SelectLen(s, k) \o concat_buckets(s, k + 1, maxk)

RECURSIVE concat_buckets_desc(_, _)
concat_buckets_desc(s, k) ==
  IF k < 0 THEN <<>> ELSE SelectLen(s, k) \o concat_buckets_desc(s, k - 1)

\* sort_prefixes with the keys taken in descending order.
sort_prefixes_Descending(s) ==
  LET keys == {prefix_len(s[i]) : i \in DOMAIN s}
      maxk == IF keys = {} THEN 0 ELSE CHOOSE k \in keys : \A j \in keys : j <= k
  IN concat_buckets_desc(s, maxk)

\* sort_prefixes: one Vec per prefix length, filled in input order, and the
\* buckets concatenated by ascending key.
sort_prefixes(s) ==
  LET keys == {prefix_len(s[i]) : i \in DOMAIN s}
      maxk == IF keys = {} THEN 0 ELSE CHOOSE k \in keys : \A j \in keys : j <= k
  IN concat_buckets(s, 0, maxk)

RECURSIVE insert_all(_, _)
insert_all(t, s) ==
  IF s = <<>> THEN t ELSE insert_all(insert_into_node(t, Head(s)).root, Tail(s))

\* build_for_family that keeps every host without checking it against the trie.
build_for_family_KeepsHosts(s) ==
  LET sorted_prefixes == sort_prefixes(s)
      net_prefixes == SelectSeq(sorted_prefixes, LAMBDA p : prefix_len(p) < max_prefix_len(p))
      host_prefixes == SelectSeq(sorted_prefixes, LAMBDA p : ~(prefix_len(p) < max_prefix_len(p)))
  IN [root |-> insert_all(NodeDefault, net_prefixes), hosts |-> host_prefixes]

\* build_for_family that filters the hosts before the networks are inserted.
build_for_family_HostsFirst(s) ==
  LET sorted_prefixes == sort_prefixes(s)
      net_prefixes == SelectSeq(sorted_prefixes, LAMBDA p : prefix_len(p) < max_prefix_len(p))
      host_prefixes == SelectSeq(sorted_prefixes, LAMBDA p : ~(prefix_len(p) < max_prefix_len(p)))
  IN [root |-> insert_all(NodeDefault, net_prefixes),
      hosts |-> SelectSeq(host_prefixes, LAMBDA h : IsSome(find_insert_leaf(NodeDefault, h)))]

\* build_for_family: Table { root, hosts }.
build_for_family(s) ==
  LET sorted_prefixes == sort_prefixes(s)
      net_prefixes == SelectSeq(sorted_prefixes, LAMBDA p : prefix_len(p) < max_prefix_len(p))
      host_prefixes == SelectSeq(sorted_prefixes, LAMBDA p : ~(prefix_len(p) < max_prefix_len(p)))
      root == insert_all(NodeDefault, net_prefixes)
  IN [root |-> root,
      hosts |-> SelectSeq(host_prefixes, LAMBDA h : IsSome(find_insert_leaf(root, h)))]

\* with_prefixes without the partition: one table for both families.
with_prefixes_OneTable(s) ==
  [ipv4 |-> build_for_family(s), ipv6 |-> build_for_family(<<>>)]

\* ReduceTrie::with_prefixes: partition by family, one table per family.
with_prefixes(s) ==
  [ipv4 |-> build_for_family(SelectSeq(s, LAMBDA p : p.fam = V4)),
   ipv6 |-> build_for_family(SelectSeq(s, LAMBDA p : p.fam # V4))]

\* get_all_prefixes that appends each family's hosts right after its trie.
get_all_prefixes_PerFamily(rt) ==
  collect_prefixes(rt.ipv4.root) \o rt.ipv4.hosts
    \o collect_prefixes(rt.ipv6.root) \o rt.ipv6.hosts

\* ReduceTrie::get_all_prefixes.
get_all_prefixes(rt) ==
  collect_prefixes(rt.ipv4.root) \o collect_prefixes(rt.ipv6.root)
    \o rt.ipv4.hosts \o rt.ipv6.hosts

(* --------------------------- ReducePrefixList --------------------------- *)

\* ReducePrefixList::new.
list_new == [ipv4_prefixes |-> <<>>, ipv6_prefixes |-> <<>>]

\* sort_prefixes of reduce_prefix_list.rs (the same bucketing).
list_sort_prefixes(s) ==
  LET keys == {prefix_len(s[i]) : i \in DOMAIN s}
      maxk == IF keys = {} THEN 0 ELSE CHOOSE k \in keys : \A j \in keys : j <= k
  IN concat_buckets(s, 0, maxk)

\* ReducePrefixList::insert: the lists afterwards and the returned bool.
list_insert(l, p) ==
  LET existing == IF p.fam = V4 THEN l.ipv4_prefixes ELSE l.ipv6_prefixes IN
  IF \E i \in DOMAIN existing : contains(existing[i], p.fam, network(p))
  THEN [list |-> l, ok |-> FALSE]
  ELSE [list |-> IF p.fam = V4 THEN [l EXCEPT !.ipv4_prefixes = Append(@, p)]
                 ELSE [l EXCEPT !.ipv6_prefixes = Append(@, p)],
        ok |-> TRUE]

RECURSIVE list_insert_all(_, _)
list_insert_all(l, s) ==
  IF s = <<>> THEN l ELSE list_insert_all(list_insert(l, Head(s)).list, Tail(s))

\* ReducePrefixList::with_prefixes.
list_with_prefixes(s) == list_insert_all(list_new, list_sort_prefixes(s))

\* ReducePrefixList::get_all_prefixes.
list_get_all_prefixes(l) == l.ipv4_prefixes \o l.ipv6_prefixes

(* --------------------------- lines and parsing --------------------------- *)

\* A text line, by what the parsers make of it:
\*   kind "cidr": "<address>/<len>"; kind "addr": a bare address;
\*   kind "text": anything else ("not an ip", "192,45.3.1").
\* pad: the line carries leading or trailing whitespace.
Line(kind, fam, addr, len, pad) ==
  [kind |-> kind, fam |-> fam, addr |-> addr, len |-> len, pad |-> pad]

trim(line) == [line EXCEPT !.pad = FALSE]

\* s.parse::<IpNet>(): CIDR notation with a prefix length the family allows;
\* whitespace is not accepted.
parse_IpNet(line) ==
  IF line.kind = "cidr" /\ ~line.pad /\ line.len <= max_prefix_len_of(line.fam)
  THEN Some(IpNet(line.fam, line.addr, line.len))
  ELSE None

\* s.parse::<Ipv6Addr>() / s.parse::<Ipv4Addr>(): a bare address of that family.
parse_IpAddr(line, fam) ==
  IF line.kind = "addr" /\ ~line.pad /\ line.fam = fam THEN Some(line.addr) ELSE None

\* s.contains(":"): only IPv6 notation has colons.
contains_colon(line) == line.kind \in {"cidr", "addr"} /\ line.fam = V6

ipv4_to_ipnet(ip) == Some(IpNet(V4, ip, max_prefix_len_of(V4)))

ipv6_to_ipnet(ip) == Some(IpNet(V6, ip, max_prefix_len_of(V6)))

parse_to_cidr(line) ==
  LET s == trim(line) IN
  IF IsSome(parse_IpNet(s)) THEN parse_IpNet(s)
  ELSE IF contains_colon(s) /\ IsSome(parse_IpAddr(s, V6)) THEN ipv6_to_ipnet(parse_IpAddr(s, V6)[1])
  ELSE IF IsSome(parse_IpAddr(s, V4)) THEN ipv4_to_ipnet(parse_IpAddr(s, V4)[1])
  ELSE None

\* to_string that prints the prefix length one too short.
to_string_ShortLen(p) ==
  Line("cidr", p.fam, p.addr, IF p.len > 0 THEN p.len - 1 ELSE 0, FALSE)

\* IpNet's Display (p.to_string()): "<address>/<len>", the address as stored.
to_string(p) == Line("cidr", p.fam, p.addr, p.len, FALSE)

\* map_while in place of filter_map: parsing stops at the first line that
\* does not parse.
RECURSIVE map_while_parse(_)
map_while_parse(ls) ==
  IF ls = <<>> THEN <<>>
  ELSE LET r == parse_to_cidr(Head(ls)) IN
       IF IsSome(r) THEN <<r[1]>> \o map_while_parse(Tail(ls)) ELSE <<>>

\* lines.iter().filter_map(|line| parse_to_cidr(line)).collect()
RECURSIVE filter_map_parse(_)
filter_map_parse(ls) ==
  IF ls = <<>> THEN <<>>
  ELSE LET r == parse_to_cidr(Head(ls)) IN
       (IF IsSome(r) THEN <<r[1]>> ELSE <<>>) \o filter_map_parse(Tail(ls))

MapToString(ps) == [i \in DOMAIN ps |-> to_string(ps[i])]

\* reduce_cidrs(lines).
reduce_cidrs(ls) == MapToString(get_all_prefixes(with_prefixes(filter_map_parse(ls))))

(* ------------------------------ inputs ---------------------------------- *)

CidrLines == {Line("cidr", p.fam, p.addr, p.len, FALSE) : p \in AllIpNets}

\* Bare addresses: the lowest and the highest address of the family.
AddrLinesOf(fam) ==
  {Line("addr", fam, a, 0, FALSE) : a \in {0, Pow2(max_prefix_len_of(fam)) - 1}}

AddrLines == AddrLinesOf(V4) \cup AddrLinesOf(V6)

\* Lines no parser accepts: free text, a prefix length beyond the family's
\* maximum, and some padded lines, which parse after trimming.
OtherLines ==
  {Line("text", V4, 0, 0, FALSE),
   Line("cidr", V4, 0, max_prefix_len_of(V4) + 1, FALSE),
   Line("cidr", V4, 0, 1, TRUE),
   Line("addr", V6, 1, 0, TRUE)}

Lines == CidrLines \cup AddrLines \cup OtherLines

SeqsUpTo(S, n) == UNION {[1 .. k -> S] : k \in 0 .. n}

(* ------------------------- the run of reduce_cidrs ----------------------- *)

\* pc, lines, prefixes, table, result: the position in the run and the values
\* of reduce_cidrs and main.  argv, output_format, stdout, stderr, exit_code:
\* the process around it.  steps: the steps of main taken so far, in order.
\* trie, inserted: one Node tree and the prefixes passed to insert_into_node so
\* far.  work: the position and the pending prefixes of each family's
\* build_for_family.
VARIABLES pc, lines, prefixes, table, result,
          argv, output_format, stdout, stderr, exit_code, steps,
          trie, inserted, work

vars == <<pc, lines, prefixes, table, result,
          argv, output_format, stdout, stderr, exit_code, steps,
          trie, inserted, work>>

aux == <<trie, inserted, work>>

\* build_for_family before its first statement.
IdleWork ==
  [pc |-> "start", input |-> <<>>, net_prefixes |-> <<>>, host_prefixes |-> <<>>,
   root |-> NodeDefault, hosts |-> <<>>]

AuxIdle ==
  /\ trie = NodeDefault
  /\ inserted = <<>>
  /\ work = [f \in Families |-> IdleWork]

engine == <<prefixes, table, result>>

process == <<argv, output_format, stdout, stderr, exit_code, steps>>

EmptyTable == [root |-> NodeDefault, hosts |-> <<>>]

EmptyReduceTrie == [ipv4 |-> EmptyTable, ipv6 |-> EmptyTable]

\* Cli: --file, --output-format (default "list"), and clap's --help/--version.
Argv(mode, file, selector) == [mode |-> mode, file |-> file, selector |-> selector]

DefaultArgv == Argv("run", None, "list")

(* ------------------------- the run of reduce_cidrs ----------------------- *)

Init ==
  /\ pc = "start"
  /\ lines \in SeqsUpTo(Lines, MaxLines)
  /\ prefixes = <<>>
  /\ table = EmptyReduceTrie
  /\ result = <<>>
  /\ AuxIdle
  /\ argv = DefaultArgv
  /\ output_format = None
  /\ stdout = <<>>
  /\ stderr = <<>>
  /\ exit_code = None
  /\ steps = <<>>

\* lines.iter().filter_map(parse_to_cidr).collect()
ParseLines ==
  /\ pc = "start"
  /\ prefixes' = filter_map_parse(lines)
  /\ pc' = "parsed"
  /\ UNCHANGED <<aux, lines, table, result, process>>

\* ReduceTrie::with_prefixes(prefixes)
BuildTrie ==
  /\ pc = "parsed"
  /\ table' = with_prefixes(prefixes)
  /\ pc' = "built"
  /\ UNCHANGED <<aux, lines, prefixes, result, process>>

\* .get_all_prefixes().iter().map(to_string).collect()
CollectOutput ==
  /\ pc = "built"
  /\ result' = MapToString(get_all_prefixes(table))
  /\ pc' = "done"
  /\ UNCHANGED <<aux, lines, prefixes, table, process>>

Next == ParseLines \/ BuildTrie \/ CollectOutput

Spec == Init /\ [][Next]_vars

(* ------------------------------ the process ------------------------------ *)

ExitSuccess == 0

ExitError == 1

\* The status clap exits with on a usage error.
UsageError == ExitError + 1

\* to_lowercase of the selectors the runs use.
to_lowercase(sel) ==
  IF sel = "JSON" THEN "json" ELSE IF sel = "YaMl" THEN "yaml" ELSE sel

\* impl FromStr for OutputFormat.
OutputFormat_from_str(sel) ==
  LET l == to_lowercase(sel) IN
  IF l = "json" THEN Some("Json")
  ELSE IF l = "yaml" THEN Some("Yaml")
  ELSE IF l = "list" THEN Some("List")
  ELSE None

Selectors == {"json", "JSON", "YaMl", "list", "xml", ""}

Argvs ==
  {Argv("run", f, sel) : f \in {None, Some("cidrs.txt")}, sel \in Selectors}
    \cup {Argv("help", None, "list"), Argv("version", None, "list")}

\* The lines the input streams hold: a network, a host it covers (padded), a
\* bare IPv6 address and a line that is no prefix.
CliLines ==
  {Line("cidr", V4, 0, 1, FALSE),
   Line("addr", V4, 0, 0, TRUE),
   Line("addr", V6, 1, 0, FALSE),
   Line("text", V4, 0, 0, FALSE)}

\* One write to a stream: what was written and in which format.
Chunk(fmt, items) == [fmt |-> fmt, items |-> items]

\* OutputFormat::write on success: Json and Yaml serialize the whole list and
\* write it once, List writes one line per prefix.
write_format(fmt, ps) ==
  IF fmt = "List" THEN [i \in DOMAIN ps |-> Chunk("List", <<ps[i]>>)]
  ELSE <<Chunk(fmt, ps)>>

\* What reached the writer when a write fails: for List the lines before the
\* failing one, for Json and Yaml nothing.
PartialWrites(fmt, ps) ==
  IF fmt = "List" THEN {SubSeq(write_format(fmt, ps), 1, k) : k \in 0 .. (Len(ps) - 1)}
  ELSE {<<>>}

InitCli ==
  /\ pc = "main"
  /\ argv \in Argvs
  /\ lines = <<>>
  /\ prefixes = <<>>
  /\ table = EmptyReduceTrie
  /\ result = <<>>
  /\ AuxIdle
  /\ output_format = None
  /\ stdout = <<>>
  /\ stderr = <<>>
  /\ exit_code = None
  /\ steps = <<>>

\* exit(code)
Exit(code) ==
  /\ exit_code' = Some(code)
  /\ pc' = "exited"

\* Cli::parse() with a selector FromStr accepts.
ParseArgs ==
  /\ pc = "main"
  /\ argv.mode = "run"
  /\ IsSome(OutputFormat_from_str(argv.selector))
  /\ output_format' = OutputFormat_from_str(argv.selector)
  /\ pc' = "read_input"
  /\ steps' = Append(steps, "parse_args")
  /\ UNCHANGED <<aux, lines, engine, argv, stdout, stderr, exit_code>>

\* Cli::parse() with a selector FromStr rejects: clap reports it and exits.
ParseArgsRejected ==
  /\ pc = "main"
  /\ argv.mode = "run"
  /\ ~IsSome(OutputFormat_from_str(argv.selector))
  /\ stderr' = Append(stderr, Chunk("error", <<"Unknown output format", argv.selector>>))
  /\ steps' = steps \o <<"parse_args", "exit">>
  /\ Exit(UsageError)
  /\ UNCHANGED <<aux, lines, engine, argv, output_format, stdout>>

\* Cli::parse() with --help or --version: clap prints it and exits.
ParseArgsInfo ==
  /\ pc = "main"
  /\ argv.mode \in {"help", "version"}
  /\ stdout' = Append(stdout, Chunk(argv.mode, <<"net-reduce">>))
  /\ steps' = steps \o <<"parse_args", "exit">>
  /\ Exit(ExitSuccess)
  /\ UNCHANGED <<aux, lines, engine, argv, output_format, stderr>>

\* read_input: stdin, or a file that opens.
OpenInput ==
  /\ pc = "read_input"
  /\ pc' = "read_lines"
  /\ steps' = Append(steps, "read_start")
  /\ UNCHANGED <<aux, lines, engine, argv, output_format, stdout, stderr, exit_code>>

\* main's Err arm of read_input.
ReadFailed(what) ==
  /\ stderr' = Append(stderr, Chunk("error", <<what>>))
  /\ steps' = steps \o <<"read_failed", "exit">>
  /\ Exit(ExitError)
  /\ UNCHANGED <<aux, lines, engine, argv, output_format, stdout>>

\* input::from_file: File::open fails.
OpenFailed ==
  /\ pc = "read_input"
  /\ IsSome(argv.file)
  /\ ReadFailed("open")

\* read_lines: the next line of the stream.
ReadLine ==
  /\ pc = "read_lines"
  /\ Len(lines) < MaxLines
  /\ \E l \in CliLines : lines' = Append(lines, l)
  /\ UNCHANGED <<aux, pc, engine, process>>

\* The Err arm of read_input without its exit: main goes on with the lines
\* read so far.
ReadLineFailed_GoesOn ==
  /\ pc = "read_lines"
  /\ stderr' = Append(stderr, Chunk("error", <<"read">>))
  /\ steps' = Append(steps, "read_failed")
  /\ pc' = "reduce"
  /\ UNCHANGED <<aux, lines, engine, argv, output_format, stdout, exit_code>>

\* read_lines: the stream yields an error.
ReadLineFailed ==
  /\ pc = "read_lines"
  /\ ReadFailed("read")

\* read_lines: end of stream.
ReadEof ==
  /\ pc = "read_lines"
  /\ pc' = "reduce"
  /\ steps' = Append(steps, "read_done")
  /\ UNCHANGED <<aux, lines, engine, argv, output_format, stdout, stderr, exit_code>>

\* let reduced = reduce_cidrs(lines);
Reduce ==
  /\ pc = "reduce"
  /\ prefixes' = filter_map_parse(lines)
  /\ table' = with_prefixes(filter_map_parse(lines))
  /\ result' = reduce_cidrs(lines)
  /\ pc' = "write"
  /\ steps' = Append(steps, "reduce")
  /\ UNCHANGED <<aux, lines, argv, output_format, stdout, stderr, exit_code>>

\* output_format.write(reduced, stdout) returns Ok.
WriteOutput ==
  /\ pc = "write"
  /\ stdout' = stdout \o write_format(output_format[1], result)
  /\ pc' = "written"
  /\ steps' = Append(steps, "write")
  /\ UNCHANGED <<aux, lines, engine, argv, output_format, stderr, exit_code>>

\* The unwrap_or_else closure without its exit: main falls through to
\* exit(ExitCode::Success).
WriteFailed_ExitsSuccess ==
  /\ pc = "write"
  /\ \E part \in PartialWrites(output_format[1], result) : stdout' = stdout \o part
  /\ stderr' = Append(stderr, Chunk("error", <<"write">>))
  /\ steps' = steps \o <<"write_failed", "exit">>
  /\ Exit(ExitSuccess)
  /\ UNCHANGED <<aux, lines, engine, argv, output_format>>

\* output_format.write returns Err: main reports it and exits.
WriteFailed ==
  /\ pc = "write"
  /\ \E part \in PartialWrites(output_format[1], result) : stdout' = stdout \o part
  /\ stderr' = Append(stderr, Chunk("error", <<"write">>))
  /\ steps' = steps \o <<"write_failed", "exit">>
  /\ Exit(ExitError)
  /\ UNCHANGED <<aux, lines, engine, argv, output_format>>

\* exit(ExitCode::Success as i32)
ExitOk ==
  /\ pc = "written"
  /\ steps' = Append(steps, "exit")
  /\ Exit(ExitSuccess)
  /\ UNCHANGED <<aux, lines, engine, argv, output_format, stdout, stderr>>

NextCli ==
  \/ ParseArgs \/ ParseArgsRejected \/ ParseArgsInfo
  \/ OpenInput \/ OpenFailed
  \/ ReadLine \/ ReadLineFailed \/ ReadEof
  \/ Reduce
  \/ WriteOutput \/ WriteFailed
  \/ ExitOk

SpecCli == InitCli /\ [][NextCli]_vars

(* ----------------- insert_into_node calls in any order ------------------- *)

\* The prefixes passed to insert_into_node: those of one family.
TrieNets == IpNets(V4)

InitTrie ==
  /\ pc = "trie"
  /\ lines = <<>>
  /\ prefixes = <<>>
  /\ table = EmptyReduceTrie
  /\ result = <<>>
  /\ AuxIdle
  /\ argv = DefaultArgv
  /\ output_format = None
  /\ stdout = <<>>
  /\ stderr = <<>>
  /\ exit_code = None
  /\ steps = <<>>

\* Self::insert_into_node(&mut root, prefix): find_insert_leaf's walk, then the
\* rest of the function.
InsertPrefix ==
  /\ pc = "trie"
  /\ Len(inserted) < MaxInserts
  /\ \E p \in TrieNets :
       /\ trie' = insert_into_node(walked(trie, p), p).root
       /\ inserted' = Append(inserted, p)
  /\ UNCHANGED <<pc, lines, engine, process, work>>

NextTrie == InsertPrefix

SpecTrie == InitTrie /\ [][NextTrie]_vars

(* ------------------ with_prefixes, one step at a time -------------------- *)

\* with_prefixes is entered with a Vec<IpNet> of both families.
InitJoin ==
  /\ pc = "fork"
  /\ prefixes \in SeqsUpTo(AllIpNets, MaxLines)
  /\ lines = <<>>
  /\ table = EmptyReduceTrie
  /\ result = <<>>
  /\ AuxIdle
  /\ argv = DefaultArgv
  /\ output_format = None
  /\ stdout = <<>>
  /\ stderr = <<>>
  /\ exit_code = None
  /\ steps = <<>>

\* partition by family; rayon::join hands each closure its own Vec.
Partition ==
  /\ pc = "fork"
  /\ pc' = "building"
  /\ work' = [f \in Families |->
                [IdleWork EXCEPT !.pc = "sort",
                                 !.input = SelectSeq(prefixes, LAMBDA p : p.fam = f)]]
  /\ UNCHANGED <<lines, engine, process, trie, inserted>>

\* build_for_family: sort_prefixes, then the split into networks and hosts.
SortAndSplit(f) ==
  /\ work[f].pc = "sort"
  /\ LET sorted_prefixes == sort_prefixes(work[f].input) IN
     work' = [work EXCEPT
       ![f].pc = "insert",
       ![f].net_prefixes =
          SelectSeq(sorted_prefixes, LAMBDA p : prefix_len(p) < max_prefix_len(p)),
       ![f].host_prefixes =
          SelectSeq(sorted_prefixes, LAMBDA p : ~(prefix_len(p) < max_prefix_len(p)))]
  /\ UNCHANGED <<pc, lines, engine, process, trie, inserted>>

\* for prefix in net_prefixes { Self::insert_into_node(&mut root, prefix); }
InsertNet(f) ==
  /\ work[f].pc = "insert"
  /\ work[f].net_prefixes # <<>>
  /\ LET prefix == Head(work[f].net_prefixes) IN
     work' = [work EXCEPT
       ![f].root = insert_into_node(walked(work[f].root, prefix), prefix).root,
       ![f].net_prefixes = Tail(work[f].net_prefixes)]
  /\ UNCHANGED <<pc, lines, engine, process, trie, inserted>>

\* for host in host_prefixes { if find_insert_leaf(..).is_some() { push } }
CheckHost(f) ==
  /\ work[f].pc = "insert"
  /\ work[f].net_prefixes = <<>>
  /\ work[f].host_prefixes # <<>>
  /\ LET host == Head(work[f].host_prefixes) IN
     work' = [work EXCEPT
       ![f].root = walked(work[f].root, host),
       ![f].hosts = IF IsSome(find_insert_leaf(work[f].root, host))
                    THEN Append(work[f].hosts, host) ELSE work[f].hosts,
       ![f].host_prefixes = Tail(work[f].host_prefixes)]
  /\ UNCHANGED <<pc, lines, engine, process, trie, inserted>>

\* Table { root, hosts }: the closure returns.
Finish(f) ==
  /\ work[f].pc = "insert"
  /\ work[f].net_prefixes = <<>>
  /\ work[f].host_prefixes = <<>>
  /\ work' = [work EXCEPT ![f].pc = "done"]
  /\ UNCHANGED <<pc, lines, engine, process, trie, inserted>>

\* A join that returns as soon as the first closure has returned.
BothBuilt_FirstOnly == work[V4].pc = "done"

\* rayon::join returns when both closures have returned.
BothBuilt == work[V4].pc = "done" /\ work[V6].pc = "done"

\* let (ipv4, ipv6) = rayon::join(..); ReduceTrie { ipv4, ipv6 }
Join ==
  /\ pc = "building"
  /\ BothBuilt
  /\ table' = [ipv4 |-> [root |-> work[V4].root, hosts |-> work[V4].hosts],
               ipv6 |-> [root |-> work[V6].root, hosts |-> work[V6].hosts]]
  /\ pc' = "joined"
  /\ UNCHANGED <<lines, prefixes, result, process, aux>>

\* reduce_cidrs: get_all_prefixes on the returned ReduceTrie.
Collect ==
  /\ pc = "joined"
  /\ result' = MapToString(get_all_prefixes(table))
  /\ pc' = "done"
  /\ UNCHANGED <<lines, prefixes, table, process, aux>>

NextJoin ==
  \/ Partition
  \/ \E f \in Families : SortAndSplit(f)
  \/ \E f \in Families : InsertNet(f)
  \/ \E f \in Families : CheckHost(f)
  \/ \E f \in Families : Finish(f)
  \/ Join
  \/ Collect

SpecJoin == InitJoin /\ [][NextJoin]_vars

(* ------------------------- notions the claims use ------------------------ *)

Range(s) == {s[i] : i \in DOMAIN s}

\* A prefix as (family, network bits, prefix length).
Key(p) == <<p.fam, network(p), p.len>>

\* q is strictly shorter than p and contains p's network address.
Covers(q, p) ==
  /\ q.fam = p.fam
  /\ q.len < p.len
  /\ contains(q, p.fam, network(p))

\* The lines some accepted syntax matches: CIDR notation with a prefix length
\* of the family, or a bare address; surrounding whitespace does not matter.
IsValidLine(line) ==
  \/ line.kind = "cidr" /\ line.len <= max_prefix_len_of(line.fam)
  \/ line.kind = "addr"

ValidLines(ls) == SelectSeq(ls, IsValidLine)

\* The lines of one family, in their order.
LinesOf(ls, fam) == SelectSeq(ls, LAMBDA l : IsValidLine(l) /\ l.fam = fam)

\* The prefixes the emitted strings denote.
ResultNets == filter_map_parse(result)

Done == pc = "done"

(* ------------------------------- claims ---------------------------------- *)

\* C1: the output, as a set of (family, network bits, length), is exactly the
\* set of parsed input prefixes that no strictly shorter input prefix of the
\* same family contains; nothing else is produced.
C1_ExactlyUncovered ==
  Done =>
    {Key(p) : p \in Range(ResultNets)}
      = {Key(p) : p \in {x \in Range(prefixes) : \A q \in Range(prefixes) : ~Covers(q, x)}}

\* A run in which one input prefix is covered by another and was removed.
C1_Witness ==
  /\ Done
  /\ \E p, q \in Range(prefixes) : Covers(q, p)
  /\ Len(result) < Len(prefixes)

\* C2: minimality: no output entry is a strict sub-prefix of another one.
C2_Minimal ==
  Done => \A i, j \in DOMAIN ResultNets : ~Covers(ResultNets[i], ResultNets[j])

\* A run whose input holds a host and a shorter prefix containing it.
C2_Witness ==
  /\ Done
  /\ \E p, q \in Range(prefixes) : Covers(q, p) /\ p.len = max_prefix_len(p)
  /\ Len(result) >= 1

\* C3: coverage completeness: the network address of every parsed input prefix
\* lies in exactly one position of the output list.
C3_ExactlyOneEntry ==
  Done =>
    \A p \in Range(prefixes) :
      Cardinality({i \in DOMAIN ResultNets : contains(ResultNets[i], p.fam, network(p))}) = 1

\* C4: duplicates collapse: a prefix that occurs more than once in the input
\* appears at most once in the output list, host prefixes included.
C4_DuplicatesCollapse ==
  Done =>
    \A p \in Range(prefixes) :
      Cardinality({i \in DOMAIN ResultNets : Key(ResultNets[i]) = Key(p)}) <= 1

Swap(ls, i, j) ==
  [k \in DOMAIN ls |-> IF k = i THEN ls[j] ELSE IF k = j THEN ls[i] ELSE ls[k]]

\* C5: permutation invariance: every reordering of the input lines gives the
\* same set of emitted entries (transpositions generate every permutation).
C5_PermutationInvariant ==
  Done =>
    \A i, j \in DOMAIN lines : Range(reduce_cidrs(Swap(lines, i, j))) = Range(result)

\* C6: idempotence: reducing the output again yields the same set of entries.
C6_Idempotent ==
  Done => Range(reduce_cidrs(result)) = Range(result)

\* A run whose output is not all of its input, reduced again.
C6_Witness ==
  /\ Done
  /\ 1 <= Len(result)
  /\ Len(result) < Len(prefixes)
  /\ Range(reduce_cidrs(result)) = Range(result)

\* C7: family independence: the entries of one family in the output are those
\* the input's lines of that family alone produce, whatever the other family's
\* lines are.
C7_FamilyIndependent ==
  Done =>
    \A fam \in Families :
      SelectSeq(result, LAMBDA l : l.fam = fam) = reduce_cidrs(LinesOf(lines, fam))

\* A run with the IPv4 default route and an IPv6 prefix that survives.
C7_Witness ==
  /\ Done
  /\ \E p \in Range(prefixes) : p.fam = V4 /\ p.len = 0
  /\ \E l \in Range(result) : l.fam = V6

\* C8: invalid lines are ignored: the output is that of the input without its
\* unparseable lines, and an input without valid lines yields the empty output.
C8_InvalidIgnored ==
  Done =>
    /\ result = reduce_cidrs(ValidLines(lines))
    /\ (ValidLines(lines) = <<>> => result = <<>>)

\* A run whose input mixes an unparseable line with a valid one.
C8_Witness ==
  /\ Done
  /\ \E l \in Range(lines) : ~IsValidLine(l)
  /\ Len(result) = 1

Exited == pc = "exited"

Happened(step) == step \in Range(steps)

FormatRecognised == IsSome(OutputFormat_from_str(argv.selector))

\* Exit code 0 exactly when the selector is recognised, the input was read to
\* its end and the result was written; otherwise a message is on stderr.
ExitStatusOfRun ==
  /\ (exit_code = Some(ExitSuccess))
       <=> (FormatRecognised /\ Happened("read_done") /\ Happened("write"))
  /\ (exit_code # Some(ExitSuccess) => exit_code # None /\ exit_code[1] # 0 /\ stderr # <<>>)

\* C9 as stated: every run of the CLI ends with exit code 0 exactly when the
\* selector is recognised, the input is read to end-of-stream and the result
\* is written, and otherwise with a non-zero code and a message on stderr.
C9_ExitStatusEveryRun == Exited => ExitStatusOfRun

\* C9, amended: that holds of every run that asks for neither --help nor
\* --version; a run that does ends with exit code 0 without reading any input.
C9_ExitStatus ==
  Exited =>
    IF argv.mode = "run" THEN ExitStatusOfRun
    ELSE exit_code = Some(ExitSuccess) /\ ~Happened("read_start") /\ ~Happened("reduce")

\* A run that read an unparseable line and a valid one and ended with code 0.
C9_Witness ==
  /\ Exited
  /\ argv.mode = "run"
  /\ exit_code = Some(ExitSuccess)
  /\ \E l \in Range(lines) : ~IsValidLine(l)
  /\ \E l \in Range(lines) : IsValidLine(l)
  /\ stdout # <<>>

\* The place of a step in main.
StepRank(step) ==
  CASE step = "parse_args" -> 1
    [] step = "read_start" -> 2
    [] step \in {"read_done", "read_failed"} -> 3
    [] step = "reduce" -> 4
    [] step \in {"write", "write_failed"} -> 5
    [] step = "exit" -> 6

\* C10: the steps of a run occur in the order parse arguments, read all input,
\* reduce, write, exit; the engine runs at most once, only after the whole
\* input was read, and on that input; a run whose selector is not recognised
\* or whose read fails never runs the engine and writes nothing to stdout.
C10_PipelineOrder ==
  /\ \A i, j \in DOMAIN steps : i < j => StepRank(steps[i]) < StepRank(steps[j])
  /\ (steps # <<>> => steps[1] = "parse_args")
  /\ (Exited <=> Happened("exit"))
  /\ (Happened("reduce") => Happened("read_done") /\ result = reduce_cidrs(lines))
  /\ (Happened("write") \/ Happened("write_failed") => Happened("reduce"))
  /\ (~Happened("reduce") => result = <<>> /\ prefixes = <<>>)
  /\ ((pc # "main" /\ ~FormatRecognised) \/ Happened("read_failed")
        => ~Happened("reduce") /\ stdout = <<>>)

\* A run whose read failed after a line had been read.
C10_Witness ==
  /\ Exited
  /\ Happened("read_failed")
  /\ lines # <<>>
  /\ ~Happened("reduce")

IsTerminal(t, q) == q \in DOMAIN t /\ IsSome(t[q])

IsHost(p) == p.len = max_prefix_len(p)

\* C11: after any sequence of insert_into_node calls on an empty trie, no node
\* with a terminal marker has a child, and no node above a terminal node is
\* terminal itself.
C11_TrieInvariant ==
  \A q \in DOMAIN trie :
    IsTerminal(trie, q) =>
      /\ ~HasChild(trie, q, 0) /\ ~HasChild(trie, q, 1)
      /\ \A r \in DOMAIN trie : ~IsStrictDescendant(r, q)
      /\ \A k \in 0 .. (Len(q) - 1) : ~IsTerminal(trie, SubSeq(q, 1, k))

\* A longer prefix was inserted first and a shorter one containing it after.
C11_Witness ==
  /\ Len(inserted) >= 2
  /\ Covers(inserted[2], inserted[1])
  /\ IsTerminal(trie, BitPath(inserted[2], inserted[2].len))

\* (network bits, length) of the terminal markers of a tree.
TerminalKeys(t) == {<<network(t[q][1]), t[q][1].len>> : q \in {r \in DOMAIN t : IsTerminal(t, r)}}

\* C18: for non-host prefixes of one family passed to insert_into_node in any
\* order, the terminal markers at the end are those of the prefixes no
\* strictly shorter prefix among them covers.
C18_OrderIrrelevant ==
  (\A i \in DOMAIN inserted : ~IsHost(inserted[i])) =>
    TerminalKeys(trie)
      = {<<network(p), p.len>> :
           p \in {x \in Range(inserted) : \A y \in Range(inserted) : ~Covers(y, x)}}

\* Non-host prefixes passed in descending length order: the shorter one, passed
\* last, covers the first, whose marker is gone.
C18_Witness ==
  /\ Len(inserted) >= 2
  /\ \A i \in DOMAIN inserted : ~IsHost(inserted[i])
  /\ Covers(inserted[Len(inserted)], inserted[1])
  /\ TerminalKeys(trie) = {<<network(inserted[Len(inserted)]), inserted[Len(inserted)].len>>}

\* The simple design: every prefix of a family, hosts included, inserted into
\* the family's trie in ascending length order, and the terminal markers
\* collected.
simple_family(s) == collect_prefixes(insert_all(NodeDefault, sort_prefixes(s)))

simple_design(s) ==
  simple_family(SelectSeq(s, LAMBDA p : p.fam = V4))
    \o simple_family(SelectSeq(s, LAMBDA p : p.fam # V4))

\* C12: the host/network split returns the same set of prefixes as the simple
\* design that inserts every prefix, hosts included, into the trie.
C12_SplitEquivalent ==
  Done => Range(get_all_prefixes(table)) = Range(simple_design(prefixes))

\* A run with a host and a network in the input whose host survives in the
\* host list.
C12_Witness ==
  /\ Done
  /\ \E p \in Range(prefixes) : IsHost(p)
  /\ \E p \in Range(prefixes) : ~IsHost(p)
  /\ table.ipv4.hosts \o table.ipv6.hosts # <<>>

Count(s, x) == Cardinality({i \in DOMAIN s : s[i] = x})

IsLengthBucketed(r, s) ==
  /\ Len(r) = Len(s)
  /\ \A x \in Range(s) \cup Range(r) : Count(r, x) = Count(s, x)
  /\ \A i, j \in DOMAIN r : r[i].len < r[j].len => i < j

\* C15: sort_prefixes returns a permutation of its input in which every prefix
\* of a shorter length precedes every prefix of a longer length (both copies
\* of the function).
C15_LengthBucketing ==
  /\ IsLengthBucketed(sort_prefixes(prefixes), prefixes)
  /\ IsLengthBucketed(list_sort_prefixes(prefixes), prefixes)

\* An input whose first prefix is longer than its second, so that the sort
\* has to reorder it.
C15_Witness ==
  /\ Len(prefixes) >= 2
  /\ prefixes[1].len > prefixes[2].len
  /\ sort_prefixes(prefixes) # prefixes

\* Paths in the order a depth-first traversal that takes child 0 first meets
\* them.
LexBefore(a, b) ==
  \E k \in 0 .. Len(a) :
    /\ k <= Len(b)
    /\ SubSeq(a, 1, k) = SubSeq(b, 1, k)
    /\ \/ k = Len(a)
       \/ k < Len(b) /\ a[k + 1] < b[k + 1]

RECURSIVE InLexOrder(_)
InLexOrder(S) ==
  IF S = {} THEN <<>>
  ELSE LET m == CHOOSE x \in S : \A y \in S : LexBefore(x, y) IN
       <<m>> \o InLexOrder(S \ {m})

\* The prefixes of the terminal markers of a tree, in traversal order.
TerminalsOf(t) ==
  LET paths == InLexOrder({q \in DOMAIN t : IsTerminal(t, q)}) IN
  [i \in DOMAIN paths |-> t[paths[i]][1]]

\* C16 as stated: the output is [IPv4 trie prefixes, IPv4 hosts, IPv6 trie
\* prefixes, IPv6 hosts].
C16_PerFamilyOrder ==
  Done =>
    result = MapToString(TerminalsOf(table.ipv4.root) \o table.ipv4.hosts
                           \o TerminalsOf(table.ipv6.root) \o table.ipv6.hosts)

\* C16, amended: the output is [IPv4 trie prefixes, IPv6 trie prefixes, IPv4
\* hosts, IPv6 hosts], every terminal marker and every surviving host once.
C16_CollectionOrder ==
  Done =>
    result = MapToString(TerminalsOf(table.ipv4.root) \o TerminalsOf(table.ipv6.root)
                           \o table.ipv4.hosts \o table.ipv6.hosts)

\* A run that keeps an IPv4 host and an IPv6 network.
C16_Witness ==
  /\ Done
  /\ table.ipv4.hosts # <<>>
  /\ TerminalsOf(table.ipv6.root) # <<>>

\* C17: ReducePrefixList and ReduceTrie return the same set of prefixes, and
\* ReducePrefixList::insert returns false and changes nothing exactly when an
\* accepted prefix of the family contains the new prefix's network address,
\* and otherwise appends the prefix and returns true.
C17_ImplementationsAgree ==
  pc # "start" =>
    LET l == list_with_prefixes(prefixes) IN
    /\ Range(list_get_all_prefixes(l)) = Range(get_all_prefixes(with_prefixes(prefixes)))
    /\ \A p \in AllIpNets :
         LET r == list_insert(l, p)
             covered == \E e \in Range(list_get_all_prefixes(l)) :
                          e.fam = p.fam /\ contains(e, p.fam, network(p))
         IN IF covered THEN ~r.ok /\ r.list = l
            ELSE /\ r.ok
                 /\ list_get_all_prefixes(r.list) # list_get_all_prefixes(l)
                 /\ Range(list_get_all_prefixes(r.list)) = Range(list_get_all_prefixes(l)) \cup {p}

\* C13: whatever the interleaving of the two builds, the joined tables are the
\* ones the sequential build gives, the output likewise, and nothing is
\* collected before both builds have returned.
C13_ForkJoin ==
  /\ pc \in {"fork", "building"} => table = EmptyReduceTrie /\ result = <<>>
  /\ pc \in {"joined", "done"} =>
       /\ \A f \in Families : work[f].pc = "done"
       /\ table = [ipv4 |-> build_for_family(SelectSeq(prefixes, LAMBDA p : p.fam = V4)),
                   ipv6 |-> build_for_family(SelectSeq(prefixes, LAMBDA p : p.fam = V6))]
  /\ pc = "joined" => result = <<>>
  /\ pc = "done" => result = MapToString(get_all_prefixes(with_prefixes(prefixes)))

\* A finished run in which each family had a prefix to build from.
C13_Witness ==
  /\ pc = "done"
  /\ \A f \in Families : work[f].input # <<>>
  /\ Len(result) = 2

\* C14: a step that discards a network and every step of the host phase leave
\* the family's trie as it was, and the finished trie is the one the network
\* insertions left.
C14_ReadOnlyWalk ==
  /\ [](\A f \in Families :
          work[f].pc = "done" =>
            work[f].root =
              insert_all(NodeDefault,
                         SelectSeq(sort_prefixes(work[f].input), LAMBDA p : ~IsHost(p))))
  /\ [][\A f \in Families :
          LET w == work[f] IN
          /\ ( /\ w.pc = "insert"
               /\ w.net_prefixes # <<>>
               /\ work'[f].net_prefixes # w.net_prefixes
               /\ \E q \in DOMAIN w.root :
                    /\ IsTerminal(w.root, q)
                    /\ Len(q) < Head(w.net_prefixes).len
                    /\ q = BitPath(Head(w.net_prefixes), Len(q)) )
             => work'[f].root = w.root
          /\ ( /\ w.pc = "insert"
               /\ w.host_prefixes # <<>>
               /\ work'[f].host_prefixes # w.host_prefixes )
             => work'[f].root = w.root]_vars

\* A finished build that discarded a covered prefix of its input and kept the
\* covering network in the trie.
C14_Witness ==
  \E f \in Families :
    /\ work[f].pc = "done"
    /\ \E i, j \in DOMAIN work[f].input :
         /\ Covers(work[f].input[i], work[f].input[j])
         /\ Key(work[f].input[i]) # Key(work[f].input[j])
         /\ collect_prefixes(work[f].root) \o work[f].hosts = <<work[f].input[i]>>

====
